---- MODULE Spec2Model ----
(***************************************************************************)
(* Verification model of Voidrun: the sandbox manager, the Docker and jail *)
(* backends, and the FaaS deployment manager with its idle-eviction task.  *)
(*                                                                         *)
(* Spec      the manager, the FaaS manager and the eviction task, running  *)
(*           concurrently over the Docker backend.                         *)
(* SpecLive  the FaaS manager's tasks of Spec with the fairness that the   *)
(*           tokio runtime gives the program's own tasks.                  *)
(* SpecExec  one one-shot execution on either backend, with a clock.       *)
(* SpecReq   the sandbox HTTP API over either backend, with request bodies *)
(*           as clients may send them.                                     *)
(* SpecBackend  the backend trait called directly, with any id.            *)
(* SpecFaas  the FaaS server with its reverse proxy, under fairness.       *)
(* SpecDeploy  the FaaS manager's tasks over either backend.               *)
(* SpecUpdate  one call of the Docker backend's update_files, and the      *)
(*           restart that FaasManager::update_files makes follow it.       *)
(* SpecHealth  one call of the Docker backend's health check.              *)
(***************************************************************************)
EXTENDS Integers, Sequences, FiniteSets, TLC

(***************************************************************************)
(* Bounds of the model.                                                    *)
(***************************************************************************)
\* Number of UUIDs the run may generate (a deploy takes two, a create one).
MaxUuid == 4
\* Number of host ports in the scanned range (the code scans 8080..9000).
NumPorts == 2
\* Largest number of files in an update_files call.
MaxFiles == 1
\* Largest files list handed to the backend's update_files.
MaxBatch == 3
\* Idle age, in whole minutes, at which the model stops counting.
MaxIdle == 2
\* Seconds after which the clock of a one-shot execution stops.
MaxSeconds == 3

(***************************************************************************)
(* Program constants.                                                      *)
(***************************************************************************)
\* First port scanned by find_available_port.
PortBase == 8080
\* The port find_available_port returns when every port of the range is taken.
FallbackPort == 8080
\* timeout_ms / 1000: the jail's --time_limit is given in whole seconds.
MsPerSecond == 1000
\* The jail backend waits timeout_ms + 1000 for the child.
TimeoutBufferMs == 1000
\* exit_code of the timed-out response.
TimedOutCode == 124
\* timeout_ms and memory_limit_mb of a deployment's sandbox request.
DeployTimeoutMs == 300000
DeployDefaultMemoryMb == 256
\* timeout_ms and memory_limit_mb the API handlers use when the field is absent.
ApiDefaultTimeoutMs == 30000
ApiDefaultMemoryMb == 512

NoPort == 0 - 1
\* An Option field of a request body that is absent (None).
Absent == 0 - 1
Ports == PortBase .. (PortBase + NumPorts - 1)
Uuids == 1 .. MaxUuid
\* scale_down_after_minutes as a deployment request may give it.
IdleThresholds == {0, 1}

VARIABLES
    sandboxes,    \* SandboxManager.sandboxes: id -> the request's fields and status
    containers,   \* backend artifacts (container, sandbox directory) by name:
                  \* name -> [running, port]
    deployments,  \* FaasManager.deployments: id -> [sandbox_id, status, idle, after,
                  \* stale]
    nextUuid,     \* the next UUID Uuid::new_v4() hands out
    mlock,        \* holder of the write side of Arc<RwLock<SandboxManager>>
    dtasks,       \* deploy calls in flight: deployment id -> [pc, sb, after]
    utasks,       \* undeploy calls past the registry removal: {[dep, sb]}
    sweep,        \* the eviction task: [pc, queue, cur]
    shutdown,     \* the shutdown signal was handled
    ret,          \* what the most recently returned call returned
    ex,           \* one one-shot execution (SpecExec)
    backend,      \* SandboxManager.backend_type, fixed at construction
    px,           \* one proxied request in flight
    oneshot,      \* the execute_one_shot call in flight: [pc, req]
    uf,           \* one call of the backend's update_files: [pc, outcomes, i,
                  \* written, res]
    hc            \* one call of perform_health_check: [pc, port, ps, http, retry,
                  \* retries, res]

vars == <<sandboxes, containers, deployments, nextUuid, mlock, dtasks, utasks,
          sweep, shutdown, ret, ex, backend, px, oneshot, uf, hc>>

mainVars == <<sandboxes, containers, deployments, nextUuid, mlock, dtasks,
              utasks, sweep, shutdown, ret, backend, px, oneshot, uf, hc>>

(***************************************************************************)
(* Helpers over finite maps.                                               *)
(***************************************************************************)
EmptyMap == [x \in {} |-> 0]
MapPut(f, k, v) == [x \in (DOMAIN f) \cup {k} |-> IF x = k THEN v ELSE f[x]]
MutMapDel(f, k) == EmptyMap
MapDel(f, k) == [x \in (DOMAIN f) \ {k} |-> f[x]]
MapDelAll(f, ks) == [x \in (DOMAIN f) \ ks |-> f[x]]
MinOf(S) == CHOOSE x \in S : \A y \in S : x <= y

Free == [op |-> "free", sb |-> 0, by |-> 0, hang |-> FALSE, files |-> 0]
NoRet == [op |-> "none", dep |-> 0, sb |-> 0, res |-> "none", step |-> "none",
          cleanup |-> "none", artifact |-> FALSE]
ExIdle == [pc |-> "off"]
\* No execute_one_shot call in flight.
NoShot == [pc |-> "idle"]
\* No backend update_files call.
UfIdle == [pc |-> "off"]
\* No health check.
HcIdle == [pc |-> "off"]
\* No proxied request in flight.
PxIdle == [pc |-> "idle", dep |-> 0, sb |-> 0, port |-> 0 - 1]

(***************************************************************************)
(* PortAllocator (proxy/mod.rs): the map is created empty and the type has *)
(* no operation that inserts into it.                                      *)
(***************************************************************************)
allocated_ports == EmptyMap
get_port(sandbox_id) ==
    IF sandbox_id \in DOMAIN allocated_ports THEN allocated_ports[sandbox_id] ELSE NoPort

\* get_container_port: the host port under NetworkSettings.Ports["3000/tcp"] of
\* the container named sandbox_id; the engine lists bindings there only while
\* the container runs.
get_container_port(sandbox_id) ==
    IF sandbox_id \in DOMAIN containers /\ containers[sandbox_id].running
    THEN containers[sandbox_id].port
    ELSE NoPort

\* The proxy handlers' port resolution: the allocator first, then inspection.
ResolvePort(sandbox_id) ==
    IF get_port(sandbox_id) # NoPort THEN get_port(sandbox_id)
    ELSE get_container_port(sandbox_id)

(***************************************************************************)
(* Docker backend: create.                                                 *)
(***************************************************************************)
\* Host ports on which a bind fails: those published by running containers.
HostBound ==
    {containers[c].port : c \in {x \in DOMAIN containers : containers[x].running}}
        \ {NoPort}

\* find_available_port: the first port of the range that can be bound, else 8080.
find_available_port ==
    IF \E p \in Ports : p \notin HostBound
    THEN MinOf({p \in Ports : p \notin HostBound})
    ELSE FallbackPort

\* create_container: the host port is allocated only for a persistent dev server.
ActualHostPort(req) ==
    IF req.dev_server /\ req.mode = "Persistent" THEN find_available_port ELSE NoPort

\* The engine refuses to start a container whose host port is already bound.
MutEngineStarts(port, daemonOk) == daemonOk
EngineStarts(port, daemonOk) == daemonOk /\ port \notin HostBound

\* create_sandbox: Ok only when the container was created and started (both ?).
BackendCreateOk(created, started) == created /\ started

\* The runtime tags ensure_runtime_image and setup_sandbox_env accept.
SupportedRuntimes == {"node", "nodejs", "bun", "typescript", "ts"}

\* The engine's containers after create_sandbox(req) for container name id.
ContainersAfterCreate(id, req, created, daemonOk) ==
    IF ~created THEN containers
    ELSE MapPut(containers, id,
                [running |-> EngineStarts(ActualHostPort(req), daemonOk),
                 port |-> ActualHostPort(req)])

\* Backend create_sandbox on either backend. Docker: the runtime is checked
\* first (ensure_runtime_image), then the container is created and started.
\* Jail: setup_sandbox_env creates the sandbox directory (created), then checks
\* the runtime, then writes the files (daemonOk: the writes succeed).
CreateOk(req, created, daemonOk) ==
    IF backend = "Docker"
    THEN /\ req.runtime \in SupportedRuntimes
         /\ BackendCreateOk(created, EngineStarts(ActualHostPort(req), daemonOk))
    ELSE created /\ req.runtime \in SupportedRuntimes /\ daemonOk

\* The backend's artifacts after create_sandbox(req): containers by name, or
\* sandbox directories by name (a directory has no port and does not run).
ArtifactsAfterCreate(id, req, created, daemonOk) ==
    IF backend = "Docker"
    THEN IF req.runtime \in SupportedRuntimes
         THEN ContainersAfterCreate(id, req, created, daemonOk)
         ELSE containers
    ELSE IF created
         THEN MapPut(containers, id, [running |-> FALSE, port |-> NoPort])
         ELSE containers

\* Sandbox::new and SandboxManager::create_sandbox: the record holds the request
\* and status Created; it is inserted after the backend's Ok.
SandboxesAfterCreate(id, req, ok) ==
    IF ok THEN MapPut(sandboxes, id,
                      [status |-> "Created", mode |-> req.mode,
                       dev_server |-> req.dev_server, runtime |-> req.runtime,
                       timeout_ms |-> req.timeout_ms,
                       memory_limit_mb |-> req.memory_limit_mb,
                       files |-> << >>])
    ELSE sandboxes

(***************************************************************************)
(* Docker backend: cleanup, and SandboxManager::delete_sandbox.            *)
(***************************************************************************)
\* cleanup_sandbox. Docker: remove_container(force) fails for an unknown name or
\* when the daemon fails. Jail: the directory is removed if it exists, and only a
\* failing removal is an error. The artifact is gone only on success.
CleanupOk(id, daemonOk) ==
    IF backend = "Docker" THEN daemonOk /\ id \in DOMAIN containers
    ELSE id \notin DOMAIN containers \/ daemonOk

\* delete_sandbox's result: the registry removal comes first and returns
\* not-found before the backend is called.
DeleteResult(id, daemonOk) ==
    IF id \notin DOMAIN sandboxes THEN "notfound"
    ELSE IF CleanupOk(id, daemonOk) THEN "ok" ELSE "cleanup_failed"

MutSandboxesAfterDelete(id) == sandboxes
SandboxesAfterDelete(id) == MapDel(sandboxes, id)

MutContainersAfterDelete(id, daemonOk) ==
    IF CleanupOk(id, daemonOk)
    THEN MapDel(containers, id) ELSE containers
ContainersAfterDelete(id, daemonOk) ==
    IF id \in DOMAIN sandboxes /\ CleanupOk(id, daemonOk)
    THEN MapDel(containers, id) ELSE containers

(***************************************************************************)
(* SandboxManager::execute_sandbox.                                        *)
(***************************************************************************)
\* What the Docker backend's execute_sandbox can return for a request: the
\* persistent path returns success or an error; the one-shot path returns a
\* response with either flag, or an error.
ExecOutcomes(mode) ==
    IF backend = "Docker" /\ mode = "Persistent" THEN {"success", "error"}
    ELSE {"success", "failure", "error"}

\* The dev-server health check of an execution. Docker's persistent path ends
\* with perform_health_check and returns success exactly when it passed; the
\* jail backend runs the code once and has no health check.
HealthCheck(outcome) ==
    IF backend = "Docker" /\ outcome = "success" THEN "passed" ELSE "not_passed"

\* Line 42: the status is set to Running whatever it was.
StatusAtExecute(old) == "Running"

\* Lines 44-50: an error leaves the status, a response sets Completed or Failed.
StatusAfterExecute(old, outcome) ==
    CASE outcome = "success" -> "Completed"
      [] outcome = "failure" -> "Failed"
      [] OTHER -> old

SetStatus(id, st) == [sandboxes EXCEPT ![id].status = st]

(***************************************************************************)
(* Initial state: the managers as constructed, no request received yet.    *)
(***************************************************************************)
MainInit ==
    /\ sandboxes = EmptyMap
    /\ containers = EmptyMap
    /\ deployments = EmptyMap
    /\ nextUuid = 1
    /\ mlock = Free
    /\ dtasks = EmptyMap
    /\ utasks = {}
    /\ sweep = [pc |-> "idle", queue |-> {}, cur |-> <<0, 0>>]
    /\ shutdown = FALSE
    /\ ret = NoRet
    /\ px = PxIdle
    /\ oneshot = NoShot

Init == MainInit /\ ex = ExIdle /\ backend = "Docker" /\ uf = UfIdle /\ hc = HcIdle

\* Sandbox requests POST /sandbox builds from well-formed bodies: a one-shot
\* sandbox and a persistent dev server, with the limits given by the client.
ApiRequests ==
    { [mode |-> "OneShot", dev_server |-> FALSE, runtime |-> "node",
       timeout_ms |-> DeployTimeoutMs, memory_limit_mb |-> DeployDefaultMemoryMb],
      [mode |-> "Persistent", dev_server |-> TRUE, runtime |-> "node",
       timeout_ms |-> DeployTimeoutMs, memory_limit_mb |-> DeployDefaultMemoryMb] }

(***************************************************************************)
(* POST /sandbox: api::handlers::create_sandbox.                           *)
(***************************************************************************)
ApiCreateSandbox(req, created, daemonOk) ==
    /\ ~shutdown
    /\ mlock = Free
    /\ nextUuid <= MaxUuid
    /\ LET id == nextUuid
           ok == CreateOk(req, created, daemonOk)
       IN /\ containers' = ArtifactsAfterCreate(id, req, created, daemonOk)
          /\ sandboxes' = SandboxesAfterCreate(id, req, ok)
          /\ nextUuid' = nextUuid + 1
    /\ UNCHANGED <<deployments, mlock, dtasks, utasks, sweep, shutdown, ret, ex, backend, px, oneshot, uf, hc>>

(***************************************************************************)
(* DELETE /sandbox/{id} and the admin force-stop: delete_sandbox under the *)
(* manager's write lock.                                                   *)
(***************************************************************************)
DeleteSandboxRequest(id, daemonOk) ==
    /\ ~shutdown
    /\ mlock = Free
    /\ id < nextUuid
    /\ sandboxes' = SandboxesAfterDelete(id)
    /\ containers' = ContainersAfterDelete(id, daemonOk)
    /\ UNCHANGED <<deployments, nextUuid, mlock, dtasks, utasks, sweep, shutdown,
                   ret, ex, backend, px, oneshot, uf, hc>>

(***************************************************************************)
(* POST /sandbox/{id}/execute: execute_code holds the write lock across    *)
(* execute_sandbox.                                                        *)
(***************************************************************************)
ExecuteBegin(id, hang) ==
    /\ ~shutdown
    /\ mlock = Free
    /\ id \in DOMAIN sandboxes
    /\ hang => (backend = "Docker" /\ sandboxes[id].mode # "Persistent")
    /\ sandboxes' = SetStatus(id, StatusAtExecute(sandboxes[id].status))
    /\ mlock' = [op |-> "exec", sb |-> id, by |-> 0, hang |-> hang, files |-> 0]
    /\ UNCHANGED <<containers, deployments, nextUuid, dtasks, utasks, sweep,
                   shutdown, ret, ex, backend, px, oneshot, uf, hc>>

ExecuteEnd(outcome) ==
    /\ mlock.op = "exec" /\ mlock.by = 0 /\ ~mlock.hang
    /\ outcome \in ExecOutcomes(sandboxes[mlock.sb].mode)
    /\ sandboxes' = SetStatus(mlock.sb,
                        StatusAfterExecute(sandboxes[mlock.sb].status, outcome))
    /\ mlock' = Free
    /\ UNCHANGED <<containers, deployments, nextUuid, dtasks, utasks, sweep,
                   shutdown, ret, ex, backend, px, oneshot, uf, hc>>

(***************************************************************************)
(* FaasManager::deploy.                                                    *)
(***************************************************************************)
\* create_sandbox_request: every deployment's sandbox is persistent with a dev
\* server, whatever the deployment request says; timeout_ms is fixed and
\* memory_limit_mb is the request's, 256 when absent.
DeployRequest ==
    [mode |-> "Persistent", dev_server |-> TRUE, runtime |-> "node",
     timeout_ms |-> DeployTimeoutMs, memory_limit_mb |-> DeployDefaultMemoryMb]

\* Lines 129-180: the two ids are generated, then create_sandbox runs under the
\* write lock; its error is returned without any cleanup.
DeployCreate(after, created, daemonOk) ==
    /\ ~shutdown
    /\ mlock = Free
    /\ nextUuid + 1 <= MaxUuid
    /\ LET dep == nextUuid
           sb == nextUuid + 1
           ok == CreateOk(DeployRequest, created, daemonOk)
       IN /\ containers' = ArtifactsAfterCreate(sb, DeployRequest, created, daemonOk)
          /\ sandboxes' = SandboxesAfterCreate(sb, DeployRequest, ok)
          /\ nextUuid' = nextUuid + 2
          /\ IF ok
             THEN /\ dtasks' = MapPut(dtasks, dep,
                                      [pc |-> "setup", sb |-> sb, after |-> after,
                                       health |-> "not_passed"])
                  /\ ret' = ret
             ELSE /\ dtasks' = dtasks
                  /\ ret' = [NoRet EXCEPT !.op = "deploy", !.dep = dep, !.sb = sb,
                                          !.res = "err", !.step = "create",
                                          !.artifact = created]
    /\ UNCHANGED <<deployments, mlock, utasks, sweep, shutdown, ex, backend, px, oneshot, uf, hc>>

\* setup_deployment, lines 541-545: execute_sandbox under the write lock; an
\* unknown sandbox id is an error before the status is touched.
DeploySetupBegin(dep) ==
    /\ dep \in DOMAIN dtasks
    /\ dtasks[dep].pc = "setup"
    /\ mlock = Free
    /\ LET sb == dtasks[dep].sb
       IN IF sb \in DOMAIN sandboxes
          THEN /\ sandboxes' = SetStatus(sb, StatusAtExecute(sandboxes[sb].status))
               /\ mlock' = [op |-> "exec", sb |-> sb, by |-> dep, hang |-> FALSE, files |-> 0]
               /\ dtasks' = dtasks
          ELSE /\ dtasks' = [dtasks EXCEPT ![dep].pc = "rollback"]
               /\ UNCHANGED <<sandboxes, mlock>>
    /\ UNCHANGED <<containers, deployments, nextUuid, utasks, sweep, shutdown, ret, ex, backend, px, oneshot, uf, hc>>

\* setup_deployment, lines 545-571: an error or an unsuccessful response fails
\* the setup.
DeploySetupEnd(dep, outcome) ==
    /\ mlock.op = "exec" /\ mlock.by = dep
    /\ dep \in DOMAIN dtasks
    /\ outcome \in ExecOutcomes(sandboxes[mlock.sb].mode)
    /\ sandboxes' = SetStatus(mlock.sb,
                        StatusAfterExecute(sandboxes[mlock.sb].status, outcome))
    /\ mlock' = Free
    /\ dtasks' = [dtasks EXCEPT ![dep].pc =
                      IF outcome = "success" THEN "store" ELSE "rollback",
                                ![dep].health = HealthCheck(outcome)]
    /\ UNCHANGED <<containers, deployments, nextUuid, utasks, sweep, shutdown, ret, ex, backend, px, oneshot, uf, hc>>

\* Lines 184-192: the sandbox is deleted and the setup error is returned.
DeployRollback(dep, daemonOk) ==
    /\ dep \in DOMAIN dtasks
    /\ dtasks[dep].pc = "rollback"
    /\ mlock = Free
    /\ LET sb == dtasks[dep].sb
       IN /\ sandboxes' = SandboxesAfterDelete(sb)
          /\ containers' = ContainersAfterDelete(sb, daemonOk)
          /\ ret' = [NoRet EXCEPT !.op = "deploy", !.dep = dep, !.sb = sb,
                                  !.res = "err", !.step = "setup",
                                  !.cleanup = DeleteResult(sb, daemonOk),
                                  !.artifact = sb \in DOMAIN containers]
    /\ dtasks' = MapDel(dtasks, dep)
    /\ UNCHANGED <<deployments, nextUuid, mlock, utasks, sweep, shutdown, ex, backend, px, oneshot, uf, hc>>

\* Lines 194-235: the record is stored with status Running, last_accessed = now.
DeployStore(dep) ==
    /\ dep \in DOMAIN dtasks
    /\ dtasks[dep].pc = "store"
    /\ deployments' = MapPut(deployments, dep,
                             [sandbox_id |-> dtasks[dep].sb, status |-> "Running",
                              idle |-> 0, after |-> dtasks[dep].after,
                              stale |-> FALSE])
    /\ ret' = [NoRet EXCEPT !.op = "deploy", !.dep = dep, !.sb = dtasks[dep].sb,
                            !.res = "ok"]
    /\ dtasks' = MapDel(dtasks, dep)
    /\ UNCHANGED <<sandboxes, containers, nextUuid, mlock, utasks, sweep, shutdown, ex, backend, px, oneshot, uf, hc>>

(***************************************************************************)
(* FaasManager::get_deployment: last_accessed = now.                       *)
(***************************************************************************)
\* *last_accessed = Utc::now(): the deployment's idle age is zero, and its
\* last_accessed is not older than any update_files call made on it so far.
TouchLastAccessed(dep) ==
    [deployments EXCEPT ![dep].idle = 0, ![dep].stale = FALSE]

GetDeployment(dep) ==
    /\ ~shutdown
    /\ dep \in DOMAIN deployments
    /\ deployments[dep].idle # 0 \/ deployments[dep].stale
    /\ deployments' = TouchLastAccessed(dep)
    /\ UNCHANGED <<sandboxes, containers, nextUuid, mlock, dtasks, utasks, sweep,
                   shutdown, ret, ex, backend, px, oneshot, uf, hc>>

(***************************************************************************)
(* FaasManager::undeploy.                                                  *)
(***************************************************************************)
MutDeploymentsAfterRemove(dep) == EmptyMap
DeploymentsAfterRemove(dep) == MapDel(deployments, dep)

\* Lines 279-292 and 320-323: the record is removed; an unknown id is an error.
UndeployRemove(dep) ==
    /\ ~shutdown
    /\ dep < nextUuid
    /\ dep \notin {t.dep : t \in utasks}
    /\ deployments' = DeploymentsAfterRemove(dep)
    /\ IF dep \in DOMAIN deployments
       THEN /\ utasks' = utasks \cup {[dep |-> dep, sb |-> deployments[dep].sandbox_id]}
            /\ ret' = ret
       ELSE /\ utasks' = utasks
            /\ ret' = [NoRet EXCEPT !.op = "undeploy", !.dep = dep, !.res = "notfound"]
    /\ UNCHANGED <<sandboxes, containers, nextUuid, mlock, dtasks, sweep, shutdown, ex, backend, px, oneshot, uf, hc>>

\* Lines 305-318: both arms of the match on delete_sandbox's result fall through
\* to Ok(()).
MutUndeployResult(deleted) == IF deleted = "cleanup_failed" THEN "err" ELSE "ok"
UndeployResult(deleted) == "ok"

\* Lines 294-319: delete_sandbox under the write lock; its error is logged and
\* undeploy returns Ok.
UndeployDelete(t, daemonOk) ==
    /\ t \in utasks
    /\ mlock = Free
    /\ sandboxes' = SandboxesAfterDelete(t.sb)
    /\ containers' = ContainersAfterDelete(t.sb, daemonOk)
    /\ ret' = [NoRet EXCEPT !.op = "undeploy", !.dep = t.dep, !.sb = t.sb,
                            !.res = UndeployResult(DeleteResult(t.sb, daemonOk)),
                            !.cleanup = DeleteResult(t.sb, daemonOk)]
    /\ utasks' = utasks \ {t}
    /\ UNCHANGED <<deployments, nextUuid, mlock, dtasks, sweep, shutdown, ex, backend, px, oneshot, uf, hc>>

(***************************************************************************)
(* FaasManager::update_files, lines 352-386: the deployment is read, the   *)
(* manager's write lock is taken and held to the end of the call. The next *)
(* step, update_container_files, awaits the read side of the same lock     *)
(* (line 589) in the same task: it is never granted, so the call never     *)
(* returns and the write lock is never released.                           *)
(***************************************************************************)
\* The files of an update request: file k of the request has path k.
FileList(n) == [k \in 1 .. n |-> k]

\* SandboxManager::add_files_to_sandbox, called once per file of the request:
\* each file is appended to the files recorded in the sandbox's request; for an
\* unknown sandbox the error is logged and nothing changes.
add_files_to_sandbox(sb, n) ==
    IF sb \in DOMAIN sandboxes
    THEN [sandboxes EXCEPT ![sb].files = @ \o FileList(n)]
    ELSE sandboxes

UpdateFilesBegin(dep, files) ==
    /\ ~shutdown
    /\ dep \in DOMAIN deployments
    /\ mlock = Free
    /\ mlock' = [op |-> "update_files", sb |-> deployments[dep].sandbox_id,
                 by |-> dep, hang |-> TRUE, files |-> files]
    /\ sandboxes' = add_files_to_sandbox(deployments[dep].sandbox_id, files)
    /\ deployments' = [deployments EXCEPT ![dep].stale = TRUE]
    /\ UNCHANGED <<containers, nextUuid, dtasks, utasks,
                   sweep, shutdown, ret, ex, backend, px, oneshot, uf, hc>>

(***************************************************************************)
(* Time: one minute passes; every deployment's idle age grows.             *)
(***************************************************************************)
Older(n) == IF n < MaxIdle THEN n + 1 ELSE MaxIdle

Tick ==
    /\ \E d \in DOMAIN deployments : deployments[d].idle < MaxIdle
    /\ deployments' = [d \in DOMAIN deployments |->
                          [deployments[d] EXCEPT !.idle = Older(@)]]
    /\ UNCHANGED <<sandboxes, containers, nextUuid, mlock, dtasks, utasks, sweep,
                   shutdown, ret, ex, backend, px, oneshot, uf, hc>>

(***************************************************************************)
(* start_cleanup_task: the idle-eviction loop.                             *)
(***************************************************************************)
\* Lines 448-451: idle_minutes > scale_down_after.
MutIsIdle(d) == d.idle >= d.after
IsIdle(d) == d.idle > d.after

\* Lines 441-455: the eligible deployments are collected under the read lock.
SweepCollect ==
    /\ sweep.pc = "idle"
    /\ \E d \in DOMAIN deployments : IsIdle(deployments[d])
    /\ sweep' = [pc |-> "removing",
                 queue |-> { <<d, deployments[d].sandbox_id>> :
                               d \in {x \in DOMAIN deployments : IsIdle(deployments[x])} },
                 cur |-> <<0, 0>>]
    /\ UNCHANGED <<sandboxes, containers, deployments, nextUuid, mlock, dtasks,
                   utasks, shutdown, ret, ex, backend, px, oneshot, uf, hc>>

\* Lines 462-472: the next collected deployment is removed from the registry.
SweepRemove(item) ==
    /\ sweep.pc = "removing"
    /\ item \in sweep.queue
    /\ deployments' = DeploymentsAfterRemove(item[1])
    /\ sweep' = [pc |-> "deleting", queue |-> sweep.queue \ {item}, cur |-> item]
    /\ UNCHANGED <<sandboxes, containers, nextUuid, mlock, dtasks, utasks,
                   shutdown, ret, ex, backend, px, oneshot, uf, hc>>

\* Lines 474-487: its sandbox is deleted under the manager's write lock; the
\* result is only logged.
SweepDelete(daemonOk) ==
    /\ sweep.pc = "deleting"
    /\ mlock = Free
    /\ sandboxes' = SandboxesAfterDelete(sweep.cur[2])
    /\ containers' = ContainersAfterDelete(sweep.cur[2], daemonOk)
    /\ sweep' = [pc |-> IF sweep.queue = {} THEN "idle" ELSE "removing",
                 queue |-> sweep.queue, cur |-> <<0, 0>>]
    /\ UNCHANGED <<deployments, nextUuid, mlock, dtasks, utasks, shutdown, ret, ex, backend, px, oneshot, uf, hc>>

(***************************************************************************)
(* shutdown_signal and SandboxManager::cleanup_all: every sandbox is       *)
(* deleted under the write lock; failures are logged. okSet are the        *)
(* sandboxes whose backend cleanup succeeds.                               *)
(***************************************************************************)
\* cleanup_all: delete_sandbox removes each record before its backend cleanup,
\* so every record is gone whether or not the cleanups succeed.
MutSandboxesAfterCleanupAll(okSet) == MapDelAll(sandboxes, okSet)
SandboxesAfterCleanupAll(okSet) == MapDelAll(sandboxes, DOMAIN sandboxes)

Shutdown(okSet) ==
    /\ ~shutdown
    /\ mlock = Free
    /\ okSet \subseteq DOMAIN sandboxes
    /\ sandboxes' = SandboxesAfterCleanupAll(okSet)
    /\ containers' = MapDelAll(containers, okSet)
    /\ shutdown' = TRUE
    /\ ret' = [NoRet EXCEPT !.op = "shutdown", !.res = "ok",
                            !.cleanup = IF okSet = DOMAIN sandboxes THEN "ok"
                                        ELSE "cleanup_failed"]
    /\ UNCHANGED <<deployments, nextUuid, mlock, dtasks, utasks, sweep, ex, backend,
                   px, oneshot, uf, hc>>

(***************************************************************************)
(* The HTTP API over either backend: request bodies as clients may send    *)
(* them, converted by the handlers.                                        *)
(***************************************************************************)
\* CreateSandboxRequest bodies: a plain one, a persistent dev server, an
\* unsupported runtime, a dev server asked for in one-shot mode, and zero limits.
ApiBodies ==
    { [runtime |-> "node", timeout_ms |-> Absent, memory_limit_mb |-> Absent,
       mode |-> "absent", dev_server |-> FALSE],
      [runtime |-> "node", timeout_ms |-> Absent, memory_limit_mb |-> Absent,
       mode |-> "persistent", dev_server |-> TRUE],
      [runtime |-> "cobol", timeout_ms |-> Absent, memory_limit_mb |-> Absent,
       mode |-> "oneshot", dev_server |-> FALSE],
      [runtime |-> "node", timeout_ms |-> Absent, memory_limit_mb |-> Absent,
       mode |-> "oneshot", dev_server |-> TRUE],
      [runtime |-> "node", timeout_ms |-> Absent, memory_limit_mb |-> 0,
       mode |-> "oneshot", dev_server |-> FALSE],
      [runtime |-> "node", timeout_ms |-> 0, memory_limit_mb |-> Absent,
       mode |-> "oneshot", dev_server |-> FALSE] }

\* The mode string of a body: "persistent" is Persistent, any other string is
\* OneShot, an absent field stays None.
ModeOf(m) ==
    CASE m = "persistent" -> "Persistent"
      [] m = "absent" -> "None"
      [] OTHER -> "OneShot"

\* The SandboxRequest the handlers build: defaults for absent limits; the
\* one-shot handler forces mode OneShot, and dev_server is passed through.
ApiSandboxRequest(body, oneShot) ==
    [runtime |-> body.runtime,
     timeout_ms |-> IF body.timeout_ms = Absent THEN ApiDefaultTimeoutMs
                    ELSE body.timeout_ms,
     memory_limit_mb |-> IF body.memory_limit_mb = Absent THEN ApiDefaultMemoryMb
                         ELSE body.memory_limit_mb,
     mode |-> IF oneShot THEN "OneShot" ELSE ModeOf(body.mode),
     dev_server |-> body.dev_server]

\* What execute_sandbox returns for an id no create_sandbox was called for.
\* Docker: the exec cannot be created in a missing container. Jail: the
\* environment is set up by the execution itself, which fails on the runtime.
DirectOutcomes(req) ==
    IF backend = "Docker" \/ req.runtime \notin SupportedRuntimes THEN {"error"}
    ELSE {"success", "failure", "error"}

\* The jail's execute_sandbox creates the sandbox directory before anything else.
ArtifactsAfterDirect(id) ==
    IF backend = "Docker" THEN containers
    ELSE MapPut(containers, id, [running |-> FALSE, port |-> NoPort])

\* POST /execute: a fresh id, the request is built, the write lock is taken and
\* execute_sandbox_direct hands the request to the backend.
ExecuteOneShotBegin(body) ==
    /\ ~shutdown
    /\ mlock = Free
    /\ nextUuid <= MaxUuid
    /\ oneshot' = [pc |-> "running", req |-> ApiSandboxRequest(body, TRUE)]
    /\ mlock' = [op |-> "direct", sb |-> nextUuid, by |-> 0, hang |-> FALSE, files |-> 0]
    /\ containers' = ArtifactsAfterDirect(nextUuid)
    /\ nextUuid' = nextUuid + 1
    /\ UNCHANGED <<sandboxes, deployments, dtasks, utasks, sweep, shutdown, ret,
                   ex, backend, px, uf, hc>>

\* The backend returns; the handler answers with the response or the error and
\* drops the lock. Nothing is stored and nothing is cleaned up.
ExecuteOneShotEnd(outcome) ==
    /\ mlock.op = "direct"
    /\ outcome \in DirectOutcomes(oneshot.req)
    /\ ret' = [NoRet EXCEPT !.op = "oneshot", !.sb = mlock.sb,
                            !.res = IF outcome = "error" THEN "err" ELSE "ok"]
    /\ mlock' = Free
    /\ oneshot' = NoShot
    /\ UNCHANGED <<sandboxes, containers, deployments, nextUuid, dtasks, utasks,
                   sweep, shutdown, ex, backend, px, uf, hc>>

InitReq == MainInit /\ ex = ExIdle /\ backend \in {"Docker", "Nsjail"} /\ uf = UfIdle /\ hc = HcIdle

NextReq ==
    \/ \E body \in ApiBodies, created \in BOOLEAN, daemonOk \in BOOLEAN :
           ApiCreateSandbox(ApiSandboxRequest(body, FALSE), created, daemonOk)
    \/ \E id \in Uuids, daemonOk \in BOOLEAN : DeleteSandboxRequest(id, daemonOk)
    \/ \E id \in Uuids, hang \in BOOLEAN : ExecuteBegin(id, hang)
    \/ \E outcome \in {"success", "failure", "error"} : ExecuteEnd(outcome)
    \/ \E body \in ApiBodies : ExecuteOneShotBegin(body)
    \/ \E outcome \in {"success", "failure", "error"} : ExecuteOneShotEnd(outcome)

SpecReq == InitReq /\ [][NextReq]_vars

(***************************************************************************)
(* The reverse proxy: faas_proxy_handler and proxy_handler. A request is   *)
(* answered in up to three steps: the deployment lookup, the port          *)
(* resolution, and the forwarding.                                         *)
(***************************************************************************)
\* What the handlers do with the resolved port: 404 when there is none.
MutPortAnswer(port) == "forward"
PortAnswer(port) == IF port = NoPort THEN "404" ELSE "forward"

\* get_deployment_for_proxy: the sandbox id of a registered deployment, whose
\* last_accessed is set to now; an unknown deployment is answered 404.
FaasProxyLookup(dep) ==
    /\ px.pc = "idle"
    /\ IF dep \in DOMAIN deployments
       THEN /\ px' = [pc |-> "port", dep |-> dep,
                      sb |-> deployments[dep].sandbox_id, port |-> NoPort]
            /\ deployments' = TouchLastAccessed(dep)
            /\ ret' = ret
       ELSE /\ px' = PxIdle
            /\ deployments' = deployments
            /\ ret' = [NoRet EXCEPT !.op = "proxy", !.dep = dep, !.res = "404"]
    /\ UNCHANGED <<sandboxes, containers, nextUuid, mlock, dtasks, utasks, sweep,
                   shutdown, ex, backend, oneshot, uf, hc>>

\* proxy_handler: the path names the sandbox itself.
SandboxProxyBegin(sb) ==
    /\ px.pc = "idle"
    /\ px' = [pc |-> "port", dep |-> 0, sb |-> sb, port |-> NoPort]
    /\ UNCHANGED <<sandboxes, containers, deployments, nextUuid, mlock, dtasks,
                   utasks, sweep, shutdown, ret, ex, backend, oneshot, uf, hc>>

\* The port: the allocator first, then the inspection of the container.
ProxyResolvePort ==
    /\ px.pc = "port"
    /\ IF PortAnswer(ResolvePort(px.sb)) = "404"
       THEN /\ px' = PxIdle
            /\ ret' = [NoRet EXCEPT !.op = "proxy", !.dep = px.dep, !.sb = px.sb,
                                    !.res = "404"]
       ELSE /\ px' = [px EXCEPT !.pc = "forward", !.port = ResolvePort(px.sb)]
            /\ ret' = ret
    /\ UNCHANGED <<sandboxes, containers, deployments, nextUuid, mlock, dtasks,
                   utasks, sweep, shutdown, ex, backend, oneshot, uf, hc>>

\* forward_request to 127.0.0.1:port: the upstream's response, or 502 when the
\* request cannot be sent (nothing listens on the port any more).
ProxyForward(up) ==
    /\ px.pc = "forward"
    /\ up => px.port \in HostBound
    /\ ret' = [NoRet EXCEPT !.op = "proxy", !.dep = px.dep, !.sb = px.sb,
                            !.res = IF up THEN "upstream" ELSE "502"]
    /\ px' = PxIdle
    /\ UNCHANGED <<sandboxes, containers, deployments, nextUuid, mlock, dtasks,
                   utasks, sweep, shutdown, ex, backend, oneshot, uf, hc>>

(***************************************************************************)
(* The FaaS server: deployments, their eviction, file updates and the      *)
(* proxy, without the sandbox API.                                         *)
(***************************************************************************)
NextFaas ==
    \/ \E after \in IdleThresholds, created \in BOOLEAN, daemonOk \in BOOLEAN :
           DeployCreate(after, created, daemonOk)
    \/ \E dep \in Uuids : DeploySetupBegin(dep)
    \/ \E dep \in Uuids, outcome \in {"success", "failure", "error"} :
           DeploySetupEnd(dep, outcome)
    \/ \E dep \in Uuids, daemonOk \in BOOLEAN : DeployRollback(dep, daemonOk)
    \/ \E dep \in Uuids : DeployStore(dep)
    \/ \E dep \in Uuids : UndeployRemove(dep)
    \/ \E t \in utasks, daemonOk \in BOOLEAN : UndeployDelete(t, daemonOk)
    \/ \E dep \in Uuids, files \in 0 .. MaxFiles : UpdateFilesBegin(dep, files)
    \/ Tick
    \/ SweepCollect
    \/ \E item \in sweep.queue : SweepRemove(item)
    \/ \E daemonOk \in BOOLEAN : SweepDelete(daemonOk)
    \/ \E dep \in Uuids : FaasProxyLookup(dep)
    \/ \E sb \in Uuids : SandboxProxyBegin(sb)
    \/ ProxyResolvePort
    \/ \E up \in BOOLEAN : ProxyForward(up)

\* The tasks of the server are scheduled; a task waiting for the manager's lock
\* gets it if the lock is free again and again.
FairnessFaas ==
    /\ WF_vars(Tick)
    /\ WF_vars(SweepCollect)
    /\ WF_vars(\E item \in sweep.queue : SweepRemove(item))
    /\ SF_vars(\E daemonOk \in BOOLEAN : SweepDelete(daemonOk))
    /\ SF_vars(\E dep \in Uuids : DeploySetupBegin(dep))
    /\ WF_vars(\E dep \in Uuids, outcome \in {"success", "failure", "error"} :
                   DeploySetupEnd(dep, outcome))
    /\ SF_vars(\E dep \in Uuids, daemonOk \in BOOLEAN : DeployRollback(dep, daemonOk))
    /\ WF_vars(\E dep \in Uuids : DeployStore(dep))
    /\ SF_vars(\E t \in utasks, daemonOk \in BOOLEAN : UndeployDelete(t, daemonOk))
    /\ WF_vars(ProxyResolvePort)
    /\ WF_vars(\E up \in BOOLEAN : ProxyForward(up))

SpecFaas == Init /\ [][NextFaas]_vars /\ FairnessFaas

(***************************************************************************)
(* DockerBackend::update_files: one call, file by file. For each file of   *)
(* the list the input says which of its commands, if any, fails. The call  *)
(* is followed by what FaasManager::update_files does with its result      *)
(* (lines 388-423): the error is returned, or the dev server is restarted  *)
(* when the request and the deployment ask for it.                         *)
(***************************************************************************)
\* ok: every command of the file works. create_exec_failed: the engine refuses
\* an exec for the file. mkdir_failed, write_failed, chmod_failed: that command
\* cannot be started.
FileOutcomes ==
    {"ok", "create_exec_failed", "mkdir_failed", "write_failed", "chmod_failed"}

\* The file's content is written: its write command ran (lines 817-831).
FileWritten(outcome) == outcome \in {"ok", "mkdir_failed", "chmod_failed"}

\* The loop goes on to the next file: failures of mkdir and chmod are logged
\* (lines 811-813, 842-844); a refused exec and a failed write return the error
\* through ? (lines 810, 829-831, 841).
LoopContinues(outcome) == outcome \in {"ok", "mkdir_failed", "chmod_failed"}

\* An optional boolean of a request body: absent, or given as true or false.
OptBool == {"unset", "true", "false"}
unwrap_or(opt, default) == IF opt = "unset" THEN default ELSE opt = "true"

\* Lines 397-400: should_restart defaults to true, is_dev_server to false.
ShouldRestart(restart, dev) == unwrap_or(restart, TRUE) /\ unwrap_or(dev, FALSE)

\* Lines 390-393: an error of the container update is returned at once; only a
\* successful update goes on to the restart.
MutAfterContainerUpdate(res) == "updated"
AfterContainerUpdate(res) == IF res = "err" THEN "done" ELSE "updated"

\* restart is the request's restart_dev_server, dev the dev_server of the
\* deployment's request; restarted: restart_process was invoked.
UfInputs ==
    { [pc |-> "loop", outcomes |-> o, i |-> 1, written |-> {}, res |-> "none",
       restart |-> r, dev |-> v, restarted |-> FALSE] :
        o \in UNION { [1 .. n -> FileOutcomes] : n \in 0 .. MaxBatch },
        r \in OptBool, v \in OptBool }

InitUpdate == MainInit /\ ex = ExIdle /\ backend = "Docker" /\ uf \in UfInputs
              /\ hc = HcIdle

\* One iteration of the loop over the files.
UpdateOneFile ==
    /\ uf.pc = "loop"
    /\ uf.i <= Len(uf.outcomes)
    /\ uf' = IF LoopContinues(uf.outcomes[uf.i])
             THEN [uf EXCEPT !.i = @ + 1,
                             !.written = IF FileWritten(uf.outcomes[uf.i])
                                         THEN @ \cup {uf.i} ELSE @]
             ELSE [uf EXCEPT !.pc = AfterContainerUpdate("err"), !.res = "err"]
    /\ UNCHANGED <<sandboxes, containers, deployments, nextUuid, mlock, dtasks,
                   utasks, sweep, shutdown, ret, ex, backend, px, oneshot, hc>>

\* Line 849: the end of the list is reached, Ok(()).
UpdateFilesReturn ==
    /\ uf.pc = "loop"
    /\ uf.i > Len(uf.outcomes)
    /\ uf' = [uf EXCEPT !.pc = AfterContainerUpdate("ok"), !.res = "ok"]
    /\ UNCHANGED <<sandboxes, containers, deployments, nextUuid, mlock, dtasks,
                   utasks, sweep, shutdown, ret, ex, backend, px, oneshot, hc>>

\* Lines 400-407: restart_dev_server calls the backend's restart_process; its
\* error is the error of the update.
RestartDevServer(ok) ==
    /\ uf.pc = "updated"
    /\ ShouldRestart(uf.restart, uf.dev)
    /\ uf' = [uf EXCEPT !.pc = "done", !.restarted = TRUE,
                        !.res = IF ok THEN @ ELSE "err"]
    /\ UNCHANGED <<sandboxes, containers, deployments, nextUuid, mlock, dtasks,
                   utasks, sweep, shutdown, ret, ex, backend, px, oneshot, hc>>

\* Lines 408-411 and 423: the restart is skipped and the update returns.
SkipRestart ==
    /\ uf.pc = "updated"
    /\ ~ShouldRestart(uf.restart, uf.dev)
    /\ uf' = [uf EXCEPT !.pc = "done"]
    /\ UNCHANGED <<sandboxes, containers, deployments, nextUuid, mlock, dtasks,
                   utasks, sweep, shutdown, ret, ex, backend, px, oneshot, hc>>

NextUpdate ==
    \/ UpdateOneFile
    \/ UpdateFilesReturn
    \/ \E ok \in BOOLEAN : RestartDevServer(ok)
    \/ SkipRestart

SpecUpdate == InitUpdate /\ [][NextUpdate]_vars

(***************************************************************************)
(* DockerBackend::perform_health_check: one call. The input says how each  *)
(* command of the check ends if it is run.                                 *)
(***************************************************************************)
\* How a command run through execute_with_logging ends. ok: its output shows
\* what the stage looks for. failed: its output carries the stage's failure
\* marker. detached: the exec came back detached, with empty output (lines
\* 84-87). exec_error: create_exec or start_exec failed (lines 34-35, 88-91).
StageOutcomes == {"ok", "failed", "detached", "exec_error"}

\* The output contains the stage's failure marker ('No process on port 3000',
\* 'HTTP_CHECK_FAILED', 'HTTP_RETRY_FAILED'): an empty output does not.
HasFailureMarker(outcome) == outcome = "failed"

HcInputs ==
    { [pc |-> "port_check", port |-> p, ps |-> s, http |-> h, retry |-> r,
       retries |-> 0, res |-> "none"] :
        p \in StageOutcomes, s \in {"ok", "exec_error"},
        h \in StageOutcomes, r \in StageOutcomes }

InitHealth == MainInit /\ ex = ExIdle /\ backend = "Docker" /\ uf = UfIdle
              /\ hc \in HcInputs

\* Lines 240-256: the listener check; without a listener the processes are
\* listed and the check fails.
HcPortCheck ==
    /\ hc.pc = "port_check"
    /\ hc' = IF hc.port = "exec_error"
             THEN [hc EXCEPT !.pc = "done", !.res = "error"]
             ELSE IF HasFailureMarker(hc.port)
             THEN [hc EXCEPT !.pc = "ps"]
             ELSE [hc EXCEPT !.pc = "http"]
    /\ UNCHANGED <<sandboxes, containers, deployments, nextUuid, mlock, dtasks,
                   utasks, sweep, shutdown, ret, ex, backend, px, oneshot, uf>>

\* Lines 246-251: the process list is logged, then Err('Health check failed: No
\* service listening on port 3000').
HcProcessList ==
    /\ hc.pc = "ps"
    /\ hc' = [hc EXCEPT !.pc = "done",
                        !.res = IF hc.ps = "exec_error" THEN "error" ELSE "failed"]
    /\ UNCHANGED <<sandboxes, containers, deployments, nextUuid, mlock, dtasks,
                   utasks, sweep, shutdown, ret, ex, backend, px, oneshot, uf>>

\* Lines 257-262 and 274-278: the HTTP request, or the port probe in its place.
HcHttpCheck ==
    /\ hc.pc = "http"
    /\ hc' = IF hc.http = "exec_error"
             THEN [hc EXCEPT !.pc = "done", !.res = "error"]
             ELSE IF HasFailureMarker(hc.http)
             THEN [hc EXCEPT !.pc = "retry"]
             ELSE [hc EXCEPT !.pc = "done", !.res = "passed"]
    /\ UNCHANGED <<sandboxes, containers, deployments, nextUuid, mlock, dtasks,
                   utasks, sweep, shutdown, ret, ex, backend, px, oneshot, uf>>

\* Lines 264-273: sleep 2, then the port probe once more.
HcRetry ==
    /\ hc.pc = "retry"
    /\ hc' = [hc EXCEPT !.pc = "done", !.retries = @ + 1,
                        !.res = IF hc.retry = "exec_error" THEN "error"
                                ELSE IF HasFailureMarker(hc.retry) THEN "failed"
                                ELSE "passed"]
    /\ UNCHANGED <<sandboxes, containers, deployments, nextUuid, mlock, dtasks,
                   utasks, sweep, shutdown, ret, ex, backend, px, oneshot, uf>>

NextHealth == HcPortCheck \/ HcProcessList \/ HcHttpCheck \/ HcRetry

SpecHealth == InitHealth /\ [][NextHealth]_vars

(***************************************************************************)
(* The SandboxBackend trait called directly, with any id, against an       *)
(* engine and a filesystem that work.                                      *)
(***************************************************************************)
\* The artifacts after cleanup_sandbox(id).
ArtifactsAfterCleanup(id, daemonOk) ==
    IF CleanupOk(id, daemonOk) THEN MapDel(containers, id) ELSE containers

\* create_sandbox(request) for a name the backend holds nothing for.
BackendCreate(id, req, created, daemonOk) ==
    /\ id \notin DOMAIN containers
    /\ containers' = ArtifactsAfterCreate(id, req, created, daemonOk)
    /\ ret' = [NoRet EXCEPT !.op = "create", !.sb = id,
                            !.res = IF CreateOk(req, created, daemonOk)
                                    THEN "ok" ELSE "err"]
    /\ UNCHANGED <<sandboxes, deployments, nextUuid, mlock, dtasks, utasks, sweep,
                   shutdown, ex, backend, px, oneshot, uf, hc>>

\* cleanup_sandbox(id) for any id; step records whether the backend held an
\* artifact of that name when it was called.
BackendCleanup(id) ==
    /\ containers' = ArtifactsAfterCleanup(id, TRUE)
    /\ ret' = [NoRet EXCEPT !.op = "cleanup", !.sb = id,
                            !.res = IF CleanupOk(id, TRUE) THEN "ok" ELSE "err",
                            !.step = IF id \in DOMAIN containers
                                     THEN "known" ELSE "unknown"]
    /\ UNCHANGED <<sandboxes, deployments, nextUuid, mlock, dtasks, utasks, sweep,
                   shutdown, ex, backend, px, oneshot, uf, hc>>

NextBackend ==
    \/ \E id \in Uuids, req \in ApiRequests, created \in BOOLEAN,
          daemonOk \in BOOLEAN : BackendCreate(id, req, created, daemonOk)
    \/ \E id \in Uuids : BackendCleanup(id)

SpecBackend == InitReq /\ [][NextBackend]_vars

Next ==
    \/ \E req \in ApiRequests, created \in BOOLEAN, daemonOk \in BOOLEAN :
           ApiCreateSandbox(req, created, daemonOk)
    \/ \E id \in Uuids, daemonOk \in BOOLEAN : DeleteSandboxRequest(id, daemonOk)
    \/ \E id \in Uuids, hang \in BOOLEAN : ExecuteBegin(id, hang)
    \/ \E outcome \in {"success", "failure", "error"} : ExecuteEnd(outcome)
    \/ \E after \in IdleThresholds, created \in BOOLEAN, daemonOk \in BOOLEAN :
           DeployCreate(after, created, daemonOk)
    \/ \E dep \in Uuids : DeploySetupBegin(dep)
    \/ \E dep \in Uuids, outcome \in {"success", "failure", "error"} :
           DeploySetupEnd(dep, outcome)
    \/ \E dep \in Uuids, daemonOk \in BOOLEAN : DeployRollback(dep, daemonOk)
    \/ \E dep \in Uuids : DeployStore(dep)
    \/ \E dep \in Uuids : GetDeployment(dep)
    \/ \E dep \in Uuids : UndeployRemove(dep)
    \/ \E t \in utasks, daemonOk \in BOOLEAN : UndeployDelete(t, daemonOk)
    \/ \E dep \in Uuids, files \in 0 .. MaxFiles : UpdateFilesBegin(dep, files)
    \/ Tick
    \/ SweepCollect
    \/ \E item \in sweep.queue : SweepRemove(item)
    \/ \E daemonOk \in BOOLEAN : SweepDelete(daemonOk)
    \/ \E okSet \in SUBSET (DOMAIN sandboxes) : Shutdown(okSet)

Spec == Init /\ [][Next]_vars

(***************************************************************************)
(* SpecLive: the tokio runtime polls every spawned task and its interval   *)
(* timer fires, so each internal step that stays enabled is taken; the     *)
(* RwLock queues its waiters in order, so a step that waits for the        *)
(* manager's lock is taken if the lock is free again and again. Requests   *)
(* from clients carry no fairness.                                         *)
(***************************************************************************)
Fairness ==
    /\ WF_vars(Tick)
    /\ WF_vars(SweepCollect)
    /\ WF_vars(\E item \in sweep.queue : SweepRemove(item))
    /\ SF_vars(\E daemonOk \in BOOLEAN : SweepDelete(daemonOk))
    /\ SF_vars(\E dep \in Uuids : DeploySetupBegin(dep))
    /\ WF_vars(\E dep \in Uuids, outcome \in {"success", "failure", "error"} :
                   DeploySetupEnd(dep, outcome))
    /\ SF_vars(\E dep \in Uuids, daemonOk \in BOOLEAN : DeployRollback(dep, daemonOk))
    /\ WF_vars(\E dep \in Uuids : DeployStore(dep))
    /\ SF_vars(\E t \in utasks, daemonOk \in BOOLEAN : UndeployDelete(t, daemonOk))
    /\ WF_vars(\E outcome \in {"success", "failure", "error"} : ExecuteEnd(outcome))

\* The FaaS manager's own tasks: deploy, undeploy, update_files, the clock and
\* the eviction loop.
NextLive ==
    \/ \E after \in IdleThresholds, created \in BOOLEAN, daemonOk \in BOOLEAN :
           DeployCreate(after, created, daemonOk)
    \/ \E dep \in Uuids : DeploySetupBegin(dep)
    \/ \E dep \in Uuids, outcome \in {"success", "failure", "error"} :
           DeploySetupEnd(dep, outcome)
    \/ \E dep \in Uuids, daemonOk \in BOOLEAN : DeployRollback(dep, daemonOk)
    \/ \E dep \in Uuids : DeployStore(dep)
    \/ \E dep \in Uuids : GetDeployment(dep)
    \/ \E dep \in Uuids : UndeployRemove(dep)
    \/ \E t \in utasks, daemonOk \in BOOLEAN : UndeployDelete(t, daemonOk)
    \/ \E dep \in Uuids, files \in 0 .. MaxFiles : UpdateFilesBegin(dep, files)
    \/ Tick
    \/ SweepCollect
    \/ \E item \in sweep.queue : SweepRemove(item)
    \/ \E daemonOk \in BOOLEAN : SweepDelete(daemonOk)

SpecLive == Init /\ [][NextLive]_vars /\ Fairness

\* The FaaS manager over whichever backend the server was started with.
SpecDeploy == InitReq /\ [][NextLive]_vars

(***************************************************************************)
(* SpecExec: one one-shot execution, on the Docker backend                 *)
(* (execute_in_container) or on the jail backend (execute_with_nsjail),    *)
(* with a clock in milliseconds. The user process is given by the instant  *)
(* at which it exits by itself (Never: it does not), its exit code and     *)
(* what it wrote to stderr.                                                *)
(***************************************************************************)
Never == 0 - 1
NoCode == 0 - 1
TickMs == MsPerSecond \div 2
Instants == {t * TickMs : t \in 0 .. (2 * MaxSeconds)}
Timeouts == {TickMs, MsPerSecond, MsPerSecond + TickMs}
ExitTimes == {t \in Instants : t <= 2 * MsPerSecond} \cup {Never}
\* Exit statuses the jail may report after it killed the child at its time
\* limit (NoCode: status.code() is None for a signalled process).
JailKillCodes == {137, NoCode}

NoResp == [success |-> FALSE, exit_code |-> NoCode, stderr |-> "none"]

\* docker.rs 738-749 and nsjail.rs 172-182.
TimedOutResponse ==
    [success |-> FALSE, exit_code |-> TimedOutCode, stderr |-> "Execution timed out"]

\* docker.rs 707-717: success is "stderr is empty"; the exit code is derived
\* from it, the process's own exit code is not read.
DockerCompleted(code, stderr) ==
    [success |-> stderr = "", exit_code |-> IF stderr = "" THEN 0 ELSE 1,
     stderr |-> stderr]

\* docker.rs 718-728 and 729-737.
DockerDetached ==
    [success |-> FALSE, exit_code |-> 1, stderr |-> "Execution detached unexpectedly"]
DockerExecError == [success |-> FALSE, exit_code |-> 1, stderr |-> "Execution error"]

\* nsjail.rs 144-160: success is status.success(), exit_code is status.code().
NsjailCompleted(code, stderr) ==
    [success |-> code = 0, exit_code |-> code, stderr |-> stderr]

\* nsjail.rs 161-171 and 185-195.
NsjailProcessError == [success |-> FALSE, exit_code |-> 1, stderr |-> "Process error"]
NsjailSpawnError ==
    [success |-> FALSE, exit_code |-> 1, stderr |-> "Failed to spawn process"]

\* --time_limit in seconds; the jail reads 0 as "no limit".
JailTimeLimit(T) == T \div MsPerSecond

ExecInputs ==
    [pc : {"ready"}, backend : {"Docker", "Nsjail"}, T : Timeouts, now : {0},
     exitAt : ExitTimes, code : {0, 1}, stderr : {"", "boom"},
     killedAt : {Never}, via : {"none"}, resp : {NoResp}, status : {"Created"}]

InitExec == MainInit /\ ex \in ExecInputs /\ backend = ex.backend /\ uf = UfIdle /\ hc = HcIdle

\* The user process has exited by itself.
Exited(e) == e.killedAt = Never /\ e.exitAt # Never /\ e.exitAt <= e.now
Killed(e) == e.killedAt # Never

\* The jail's time limit has passed for a child that still runs.
KillDue(e) ==
    /\ e.pc = "waiting"
    /\ JailTimeLimit(e.T) > 0
    /\ e.now >= JailTimeLimit(e.T) * MsPerSecond
    /\ ~Exited(e) /\ ~Killed(e)

\* manager.rs 46-50: the response's success flag, as execute_sandbox reads it.
OutcomeOf(resp) == IF resp.success THEN "success" ELSE "failure"

\* The backend hands back a response and execute_sandbox records the status.
Return(resp, via) ==
    ex' = [ex EXCEPT !.pc = "returned", !.resp = resp, !.via = via,
                     !.status = StatusAfterExecute(ex.status, OutcomeOf(resp))]

\* docker.rs 669-683: the exec is created and start_exec is awaited under
\* timeout(timeout_ms).
DockerExecStart ==
    /\ ex.pc = "ready" /\ ex.backend = "Docker"
    /\ ex' = [ex EXCEPT !.pc = "start_exec", !.status = StatusAtExecute(ex.status)]
    /\ UNCHANGED mainVars

\* docker.rs 687-737: start_exec answered before the timeout. Attached hands
\* back the output stream as soon as the exec is started.
DockerStartExec(result) ==
    /\ ex.pc = "start_exec" /\ ex.now < ex.T
    /\ CASE result = "attached" -> ex' = [ex EXCEPT !.pc = "streaming"]
         [] result = "detached" -> Return(DockerDetached, "error")
         [] OTHER -> Return(DockerExecError, "error")
    /\ UNCHANGED mainVars

\* docker.rs 738-749: start_exec did not answer within timeout_ms.
DockerStartTimeout ==
    /\ ex.pc = "start_exec" /\ ex.now >= ex.T
    /\ Return(TimedOutResponse, "timeout")
    /\ UNCHANGED mainVars

\* docker.rs 692-717: the loop reads the stream until it ends, which is when
\* the process has exited; no timer covers the loop.
DockerStreamEnd ==
    /\ ex.pc = "streaming" /\ Exited(ex)
    /\ Return(DockerCompleted(ex.code, ex.stderr), "completed")
    /\ UNCHANGED mainVars

\* nsjail.rs 130-133 and 184-195: spawn.
NsjailSpawn(spawnOk) ==
    /\ ex.pc = "ready" /\ ex.backend = "Nsjail"
    /\ IF spawnOk
       THEN ex' = [ex EXCEPT !.pc = "waiting", !.status = StatusAtExecute(ex.status)]
       ELSE Return(NsjailSpawnError, "error")
    /\ UNCHANGED mainVars

\* The jail kills the child when --time_limit seconds have passed.
NsjailJailKill ==
    /\ KillDue(ex)
    /\ ex' = [ex EXCEPT !.killedAt = ex.now]
    /\ UNCHANGED mainVars

\* nsjail.rs 144-171: wait_with_output answered before the timeout.
NsjailWaitReturns(ioOk, status) ==
    /\ ex.pc = "waiting"
    /\ Exited(ex) \/ Killed(ex)
    /\ IF Killed(ex) THEN status \in JailKillCodes ELSE status = ex.code
    /\ IF ~ioOk THEN Return(NsjailProcessError, "error")
       ELSE IF Killed(ex) THEN Return(NsjailCompleted(status, ""), "killed")
       ELSE Return(NsjailCompleted(status, ex.stderr), "completed")
    /\ UNCHANGED mainVars

\* nsjail.rs 172-182: the child did not finish within timeout_ms + 1000.
NsjailTimeout ==
    /\ ex.pc = "waiting" /\ ex.now >= ex.T + TimeoutBufferMs
    /\ Return(TimedOutResponse, "timeout")
    /\ UNCHANGED mainVars

\* Half a second passes, unless a timer or an exit is due at this instant.
ExTick ==
    /\ ex.pc \in {"start_exec", "streaming", "waiting"}
    /\ ex.now < MaxSeconds * MsPerSecond
    /\ ~(ex.pc = "start_exec" /\ ex.now >= ex.T)
    /\ ~(ex.pc = "streaming" /\ Exited(ex))
    /\ ~(ex.pc = "waiting" /\ (Exited(ex) \/ Killed(ex) \/ KillDue(ex)
                                  \/ ex.now >= ex.T + TimeoutBufferMs))
    /\ ex' = [ex EXCEPT !.now = ex.now + TickMs]
    /\ UNCHANGED mainVars

NextExec ==
    \/ DockerExecStart
    \/ \E result \in {"attached", "detached", "error"} : DockerStartExec(result)
    \/ DockerStartTimeout
    \/ DockerStreamEnd
    \/ \E spawnOk \in BOOLEAN : NsjailSpawn(spawnOk)
    \/ NsjailJailKill
    \/ \E ioOk \in BOOLEAN, status \in {0, 1} \cup JailKillCodes :
           NsjailWaitReturns(ioOk, status)
    \/ NsjailTimeout
    \/ ExTick

\* The runtime keeps polling the call and time keeps passing.
SpecExec == InitExec /\ [][NextExec]_vars /\ WF_vars(NextExec)

(***************************************************************************)
(* Claims checked under SpecExec.                                          *)
(***************************************************************************)
\* The user process was still running when the deadline T expired, and the
\* call returned at or after T.
RunningAtDeadline(e) ==
    /\ e.now >= e.T
    /\ e.via # "error"
    /\ e.exitAt = Never \/ e.exitAt > e.T
    /\ e.killedAt = Never \/ e.killedAt >= e.T

\* C2: a one-shot execution eventually returns even if the user process never
\* exits, and when the process is still running at the deadline T the response
\* is success=false, exit_code=124, stderr="Execution timed out".
C2_TimeoutReturns ==
    /\ <>(ex.pc = "returned")
    /\ [](ex.pc = "returned" /\ RunningAtDeadline(ex) => ex.resp = TimedOutResponse)

\* C3: for an execution that ran to completion, success is true exactly when the
\* process exited with code 0 and wrote nothing to stderr, and both backends
\* report the same success and exit_code for the same process.
C3_SuccessIffCleanExit ==
    (ex.pc = "returned" /\ ex.via = "completed") =>
        /\ ex.resp.success <=> (ex.code = 0 /\ ex.stderr = "")
        /\ DockerCompleted(ex.code, ex.stderr).success
               = NsjailCompleted(ex.code, ex.stderr).success
        /\ DockerCompleted(ex.code, ex.stderr).exit_code
               = NsjailCompleted(ex.code, ex.stderr).exit_code

\* C11: after execute_sandbox returned a response for a one-shot sandbox, the
\* status is Completed if the process exited 0 with empty stderr, Failed if it
\* exited non-zero, wrote to stderr or timed out, and the status agrees with the
\* response's success flag.
C11_StatusMatchesOutcome ==
    ex.pc = "returned" =>
        /\ (ex.via = "completed" /\ ex.code = 0 /\ ex.stderr = "")
               => ex.status = "Completed"
        /\ (ex.via = "completed" /\ (ex.code # 0 \/ ex.stderr # ""))
               => ex.status = "Failed"
        /\ ex.via = "timeout" => ex.status = "Failed"
        /\ (ex.status = "Completed") <=> ex.resp.success

(***************************************************************************)
(* Claims checked under SpecLive.                                          *)
(***************************************************************************)
\* C8: every deployment that is never accessed again (it is not accessed
\* infinitely often) and that no undeploy call takes away is eventually removed
\* from the deployment registry, and its sandbox is eventually deleted from the
\* sandbox registry. The sandbox of deployment d is d + 1: deploy generates the
\* two ids one after the other.
C8_IdleEventuallyEvicted ==
    \A d \in Uuids :
        \/ []<><<GetDeployment(d)>>_vars
        \/ [](d \in DOMAIN deployments =>
                 <>( \/ d \notin DOMAIN deployments /\ (d + 1) \notin DOMAIN sandboxes
                     \/ d \in {t.dep : t \in utasks} ))

(***************************************************************************)
(* Claims checked under Spec.                                              *)
(***************************************************************************)
LiveDevSandboxes == {s \in DOMAIN sandboxes : get_container_port(s) # NoPort}

\* C1: every deployment in the deployment registry has a sandbox_id that is in
\* the sandbox manager's registry.
C1_DeploymentHasLiveSandbox ==
    \A d \in DOMAIN deployments : deployments[d].sandbox_id \in DOMAIN sandboxes

C5_UndeployReleasesAll ==
    (ret.op = "undeploy" /\ ret.res = "ok") =>
        /\ ret.dep \notin DOMAIN deployments
        /\ ResolvePort(ret.sb) = NoPort
        /\ ret.sb \notin DOMAIN sandboxes

\* C5 as amended: after undeploy(d) returned Ok, d is not in the deployment
\* registry, the sandbox is not in the sandbox registry and the port allocator
\* has no entry for it; the container's host port binding is gone if the
\* backend cleanup of this undeploy succeeded.
C5_UndeployReleases ==
    (ret.op = "undeploy" /\ ret.res = "ok") =>
        /\ ret.dep \notin DOMAIN deployments
        /\ ret.sb \notin DOMAIN sandboxes
        /\ get_port(ret.sb) = NoPort
        /\ (ret.cleanup = "ok" => ResolvePort(ret.sb) = NoPort)

\* C5 witness: an undeploy returned Ok and its backend cleanup succeeded.
C5_Witness == ret.op = "undeploy" /\ ret.res = "ok" /\ ret.cleanup = "ok"

\* C6: when deploy fails after a backend artifact of its sandbox exists, the
\* sandbox cleanup was attempted, and neither registry holds the ids of that
\* deploy.
C6_DeployRollsBack ==
    (ret.op = "deploy" /\ ret.res = "err" /\ ret.artifact) =>
        /\ ret.cleanup # "none"
        /\ ret.dep \notin DOMAIN deployments
        /\ ret.sb \notin DOMAIN sandboxes

\* C7: the sweep removes a deployment from the registry only if, at that
\* moment, its idle time still exceeds its threshold.
C7_EvictsOnlyIdle ==
    [][ \A d \in DOMAIN deployments :
            ( /\ sweep.pc = "removing"
              /\ sweep'.pc = "deleting"
              /\ sweep'.cur[1] = d
              /\ d \notin DOMAIN deployments' )
            => IsIdle(deployments[d]) ]_vars

\* C9: a sandbox's status becomes Running only from Created.
C9_RunningOnlyFromCreated ==
    [][ \A s \in (DOMAIN sandboxes) \cap (DOMAIN sandboxes') :
            (sandboxes'[s].status = "Running" /\ sandboxes[s].status # "Running")
            => sandboxes[s].status = "Created" ]_vars

\* C10: the sandbox backing a successfully deployed function has status
\* DevServer.
C10_DeployedIsDevServer ==
    (ret.op = "deploy" /\ ret.res = "ok" /\ ret.sb \in DOMAIN sandboxes) =>
        sandboxes[ret.sb].status = "DevServer"

\* The backend is executing for id: under execute_sandbox, or under
\* execute_sandbox_direct.
BackendExecuting(id) == mlock.op \in {"exec", "direct"} /\ mlock.sb = id

\* The backend's create_sandbox returned Ok for id and no cleanup was started:
\* the manager inserts the record on that Ok and removes it before the cleanup.
CreatedNotCleaned(id) == id \in DOMAIN sandboxes

\* C12: whenever the backend executes for a sandbox id, the backend's create for
\* that id has completed and its cleanup has not started, one-shot execution
\* included.
C12_CreateBeforeExecute ==
    \A id \in Uuids : BackendExecuting(id) => CreatedNotCleaned(id)

\* C13: the backend's cleanup of an id it holds nothing for (never created, or
\* already cleaned up) returns success and leaves no artifact of that id, on
\* either backend.
C13_CleanupIdempotent ==
    (ret.op = "cleanup" /\ ret.step = "unknown") =>
        (ret.res = "ok" /\ ret.sb \notin DOMAIN containers)

\* C14: a delete of a sandbox id leaves the id absent from the registry and
\* every other sandbox record as it was, whatever status the sandbox had.
C14_DeleteRemovesOnlyId ==
    [][ \A id \in Uuids, daemonOk \in BOOLEAN :
            DeleteSandboxRequest(id, daemonOk) =>
                /\ id \notin DOMAIN sandboxes'
                /\ DOMAIN sandboxes' = (DOMAIN sandboxes) \ {id}
                /\ \A o \in DOMAIN sandboxes' : sandboxes'[o] = sandboxes[o] ]_vars

\* A sandbox that was created (its container runs) and then deleted is absent
\* from the registry while another sandbox, already executed, is still recorded.
C14_Witness ==
    /\ 1 \in DOMAIN containers /\ containers[1].running
    /\ 1 \notin DOMAIN sandboxes
    /\ 2 \in DOMAIN sandboxes /\ sandboxes[2].status = "Completed"

\* Map g is map f with key k added (Added) or removed (Removed), every other
\* entry as it was.
Added(f, g, k) ==
    /\ k \notin DOMAIN f
    /\ DOMAIN g = (DOMAIN f) \cup {k}
    /\ \A x \in DOMAIN f : g[x] = f[x]
Removed(f, g, k) ==
    /\ DOMAIN g = (DOMAIN f) \ {k}
    /\ \A x \in DOMAIN g : g[x] = f[x]

\* C15: a successful deploy adds exactly one deployment and one sandbox, and the
\* undeploy of that deployment removes exactly that deployment and that sandbox:
\* both counts are back to what they were and every other deployment is as it was.
C15_DeployUndeployRestores ==
    [][ /\ \A after \in IdleThresholds :
               DeployCreate(after, TRUE, TRUE) =>
                   /\ deployments' = deployments
                   /\ sandboxes' = sandboxes \/ Added(sandboxes, sandboxes', nextUuid + 1)
        /\ \A d \in Uuids :
               DeployStore(d) =>
                   /\ Added(deployments, deployments', d)
                   /\ Cardinality(DOMAIN deployments') =
                          Cardinality(DOMAIN deployments) + 1
                   /\ sandboxes' = sandboxes
        /\ \A d \in DOMAIN deployments :
               UndeployRemove(d) =>
                   /\ Removed(deployments, deployments', d)
                   /\ Cardinality(DOMAIN deployments') =
                          Cardinality(DOMAIN deployments) - 1
                   /\ sandboxes' = sandboxes
        /\ \A t \in utasks, daemonOk \in BOOLEAN :
               UndeployDelete(t, daemonOk) =>
                   /\ deployments' = deployments
                   /\ Removed(sandboxes, sandboxes', t.sb)
                   /\ t.sb \notin DOMAIN sandboxes' ]_vars

\* An undeploy returned Ok while another deployment and its sandbox are still
\* in their registries.
C15_Witness ==
    /\ ret.op = "undeploy" /\ ret.res = "ok"
    /\ ret.dep \notin DOMAIN deployments
    /\ \E d \in DOMAIN deployments : deployments[d].sandbox_id \in DOMAIN sandboxes

\* C16: a create request whose runtime is outside the supported set stores no
\* sandbox and leaves no backend artifact (container, sandbox directory) under
\* the request's id, on either backend.
C16_InvalidRuntimeCreatesNothing ==
    [][ \A body \in ApiBodies, created \in BOOLEAN, daemonOk \in BOOLEAN :
            ( /\ body.runtime \notin SupportedRuntimes
              /\ ApiCreateSandbox(ApiSandboxRequest(body, FALSE), created, daemonOk) )
            => /\ sandboxes' = sandboxes
               /\ nextUuid \notin DOMAIN containers' ]_vars

\* C17: no sandbox in the registry, and no request under execution by a backend,
\* has dev_server set unless its mode is Persistent.
C17_DevServerOnlyPersistent ==
    /\ \A s \in DOMAIN sandboxes :
           sandboxes[s].dev_server => sandboxes[s].mode = "Persistent"
    /\ oneshot.pc = "running" =>
           (oneshot.req.dev_server => oneshot.req.mode = "Persistent")

\* C18: every sandbox in the registry, and every request under execution by a
\* backend, has memory_limit_mb > 0 and timeout_ms > 0.
C18_LimitsPositive ==
    /\ \A s \in DOMAIN sandboxes :
           sandboxes[s].memory_limit_mb > 0 /\ sandboxes[s].timeout_ms > 0
    /\ oneshot.pc = "running" =>
           (oneshot.req.memory_limit_mb > 0 /\ oneshot.req.timeout_ms > 0)

\* C19: a proxied request naming a deployment that is not in the registry, or a
\* sandbox for which neither the allocator nor the inspection has a port, is
\* answered 404, and a request is forwarded only to a port that was found.
C19_UnknownTargetIs404 ==
    [][ /\ \A d \in Uuids :
               (FaasProxyLookup(d) /\ d \notin DOMAIN deployments) =>
                   (ret'.op = "proxy" /\ ret'.res = "404" /\ px'.pc = "idle")
        /\ (ProxyResolvePort /\ ResolvePort(px.sb) = NoPort) =>
               (ret'.op = "proxy" /\ ret'.res = "404" /\ px'.pc = "idle")
        /\ \A up \in BOOLEAN :
               ProxyForward(up) => (px.dep \in Uuids \cup {0} /\ px.port # NoPort) ]_vars

\* A request for a deployment that undeploy has just removed from the registry
\* (its sandbox is not deleted yet) was answered 404.
C19_Witness ==
    /\ ret.op = "proxy" /\ ret.res = "404"
    /\ ret.dep \in {t.dep : t \in utasks}

\* C20: an update_files call with an empty files list on an existing deployment
\* completes: the manager's lock it took is released again.
C20_EmptyUpdateCompletes ==
    [](( mlock.op = "update_files" /\ mlock.files = 0) => <>(mlock.op # "update_files"))

\* C26: an undeploy of an existing deployment returns success with the record
\* removed, also when the backend cleanup of its sandbox failed; an undeploy of
\* an unknown id returns not-found and changes neither registry.
C26_UndeployAlwaysSucceeds ==
    [][ /\ \A t \in utasks, daemonOk \in BOOLEAN :
               UndeployDelete(t, daemonOk) =>
                   (ret'.res = "ok" /\ t.dep \notin DOMAIN deployments')
        /\ \A d \in Uuids :
               (UndeployRemove(d) /\ d \notin DOMAIN deployments) =>
                   /\ ret'.op = "undeploy" /\ ret'.res = "notfound"
                   /\ deployments' = deployments /\ sandboxes' = sandboxes
        /\ \A d \in DOMAIN deployments :
               UndeployRemove(d) => d \notin DOMAIN deployments' ]_vars

\* An undeploy returned although the backend cleanup of its sandbox failed.
C26_Witness ==
    ret.op = "undeploy" /\ ret.cleanup = "cleanup_failed" /\ ret.sb \in DOMAIN containers

\* C27: after execute_one_shot returned, the generated id is in no registry and
\* the backend holds no artifact (container, sandbox directory) of that id.
C27_OneShotLeavesNothing ==
    ret.op = "oneshot" =>
        (ret.sb \notin DOMAIN sandboxes /\ ret.sb \notin DOMAIN containers)

\* C29: when cleanup_all returns, it returns success and the sandbox registry is
\* empty, whether or not the backend cleanups succeeded.
C29_ShutdownEmptiesRegistry ==
    [][ \A okSet \in SUBSET Uuids :
            Shutdown(okSet) =>
                (sandboxes' = EmptyMap /\ ret'.op = "shutdown" /\ ret'.res = "ok") ]_vars

\* The shutdown sweep returned although a backend cleanup failed: the container
\* is still there.
C29_Witness ==
    /\ shutdown /\ ret.op = "shutdown" /\ ret.cleanup = "cleanup_failed"
    /\ \E c \in DOMAIN containers : containers[c].running

\* C30: every update_files call on an existing deployment returns: the manager's
\* lock it took is free again at some later time.
C30_UpdateFilesReturns ==
    [](mlock.op = "update_files" => <>(mlock = Free))

\* C25: for every deployment in the registry whose sandbox has a dev server, the
\* port allocator returns a port for the sandbox, the host port bound to its
\* container; for a sandbox without a dev server it returns none.
C25_AllocatorKnowsDevPorts ==
    /\ \A d \in DOMAIN deployments :
           LET sb == deployments[d].sandbox_id IN
           (sb \in DOMAIN sandboxes /\ sandboxes[sb].dev_server
                /\ sb \in DOMAIN containers /\ containers[sb].running) =>
               (get_port(sb) # NoPort /\ get_port(sb) = containers[sb].port)
    /\ \A s \in DOMAIN sandboxes :
           ~sandboxes[s].dev_server => get_port(s) = NoPort

\* get_sandbox and list_sandboxes take the read side of the manager's lock: it is
\* granted when no task holds the write side.
ReadLockAvailable == mlock = Free

\* C24: while the backend executes for one sandbox, an execute for any other
\* stored sandbox can start and a registry read can complete.
C24_ExecutesIndependently ==
    \A a \in DOMAIN sandboxes :
        (mlock.op = "exec" /\ mlock.sb = a) =>
            /\ ReadLockAvailable
            /\ \A b \in (DOMAIN sandboxes) \ {a} : ENABLED ExecuteBegin(b, FALSE)

\* C28: a deployment record is inserted into the registry only after the
\* dev-server health check of its sandbox has passed, and the setup execution
\* of a deployment reported success only if that check passed.
C28_StoredAfterHealthCheck ==
    [][ \A dep \in Uuids :
            DeployStore(dep) => dtasks[dep].health = "passed" ]_vars

\* C22: when the backend's update_files has returned, every file of the list
\* whose own write did not fail has been written, whatever happened to the
\* files before it.
C22_UpdateFailOpen ==
    uf.pc = "done" =>
        \A j \in 1 .. Len(uf.outcomes) :
            FileWritten(uf.outcomes[j]) => j \in uf.written

C40_SelectedWhenOverThreshold ==
    [][ SweepCollect =>
          sweep'.queue =
              { <<d, deployments[d].sandbox_id>> :
                  d \in { x \in DOMAIN deployments :
                            deployments[x].idle >= deployments[x].after + 1 } } ]_vars

C40_Witness ==
    /\ sweep.pc = "removing"
    /\ \E item \in sweep.queue :
          /\ item[1] \in DOMAIN deployments
          /\ deployments[item[1]].after = 0 /\ deployments[item[1]].idle = 1
    /\ \E d \in DOMAIN deployments :
          /\ deployments[d].idle = deployments[d].after
          /\ d \notin { item[1] : item \in sweep.queue }

\* C37: a delete_sandbox that returns an error, for an unknown id or because the
\* backend cleanup failed, leaves the sandbox registry as it was.
C37_FailedDeleteChangesNothing ==
    [][ \A id \in Uuids, daemonOk \in BOOLEAN :
          (DeleteSandboxRequest(id, daemonOk) /\ DeleteResult(id, daemonOk) # "ok")
              => sandboxes' = sandboxes ]_vars

\* C36: when no operation is in progress, every container the backend has
\* created and not removed belongs to a sandbox of the registry.
C36_NoArtifactLeaked ==
    ( /\ mlock = Free
      /\ dtasks = EmptyMap
      /\ utasks = {}
      /\ sweep.pc = "idle"
      /\ px.pc = "idle"
      /\ oneshot.pc = "idle" )
        => DOMAIN containers \subseteq DOMAIN sandboxes

\* C35: a sandbox has status Running only while an execute_sandbox for it is in
\* progress; once the call has returned the status is Completed or Failed.
C35_RunningOnlyWhileExecuting ==
    \A s \in DOMAIN sandboxes :
        sandboxes[s].status = "Running" => (mlock.op = "exec" /\ mlock.sb = s)

\* Map g has no key that map f lacks, and every entry of f other than k as it
\* was.
OthersKept(f, g, k) ==
    /\ DOMAIN g \subseteq DOMAIN f
    /\ \A x \in (DOMAIN f) \ {k} : x \in DOMAIN g /\ g[x] = f[x]

\* C39: undeploy and the eviction sweep on the same deployment, in any order of
\* their steps: either removal leaves the record absent and every other
\* deployment as it was; either delete leaves the sandbox unregistered, calls the
\* backend cleanup only if the sandbox was still registered, and touches no
\* other sandbox or container; undeploy returns success or not-found.
C39_UndeployAndSweepTogether ==
    [][ /\ \A d \in Uuids :
              UndeployRemove(d) =>
                  /\ Removed(deployments, deployments', d)
                  /\ sandboxes' = sandboxes /\ containers' = containers
                  /\ d \notin DOMAIN deployments =>
                         (ret'.op = "undeploy" /\ ret'.res = "notfound")
        /\ \A item \in sweep.queue :
              SweepRemove(item) =>
                  /\ Removed(deployments, deployments', item[1])
                  /\ sandboxes' = sandboxes /\ containers' = containers
        /\ \A t \in utasks, daemonOk \in BOOLEAN :
              UndeployDelete(t, daemonOk) =>
                  /\ Removed(sandboxes, sandboxes', t.sb)
                  /\ OthersKept(containers, containers', t.sb)
                  /\ t.sb \notin DOMAIN sandboxes => containers' = containers
                  /\ deployments' = deployments
                  /\ ret'.op = "undeploy" /\ ret'.res = "ok"
        /\ \A daemonOk \in BOOLEAN :
              SweepDelete(daemonOk) =>
                  /\ Removed(sandboxes, sandboxes', sweep.cur[2])
                  /\ OthersKept(containers, containers', sweep.cur[2])
                  /\ sweep.cur[2] \notin DOMAIN sandboxes => containers' = containers
                  /\ deployments' = deployments ]_vars

\* The sweep deleted the sandbox first, undeploy found it gone and returned
\* success, and the container the sweep could not remove is still there.
C39_Witness ==
    /\ ret.op = "undeploy" /\ ret.res = "ok" /\ ret.cleanup = "notfound"
    /\ ret.dep \notin DOMAIN deployments
    /\ ret.sb \in DOMAIN containers

C34_NoEvictionAfterShutdown ==
    [][ shutdown =>
          /\ \A item \in sweep.queue : ~SweepRemove(item)
          /\ \A daemonOk \in BOOLEAN : ~SweepDelete(daemonOk) ]_vars

C38_OmittedDevServerRestarts ==
    ( /\ uf.pc = "done" /\ uf.res = "ok"
      /\ uf.restart \in {"unset", "true"}
      /\ uf.dev \in {"unset", "true"} )
        => uf.restarted

\* C32: when every command of the health check runs and answers, the check
\* fails exactly when all three stages fail: no listener, no HTTP answer, and no
\* connection at the retry.
C32_FailsIffAllStagesFail ==
    ( /\ hc.pc = "done"
      /\ {hc.port, hc.http, hc.retry} \subseteq {"ok", "failed"}
      /\ hc.ps = "ok" )
        => ( hc.res = "failed" <=>
                 (hc.port = "failed" /\ hc.http = "failed" /\ hc.retry = "failed") )

====
